---- MODULE Spec2Model ----
(***************************************************************************)
(* A model of sphinxcontrib/dotnetdomain.py: the signature parser          *)
(* (DotNetSignature), the object-description handlers (DotNetObject,       *)
(* DotNetObjectNested), the construct registry (DotNetDomain.data          *)
(* ['objects']) and the cross-reference resolver (find_obj, resolve_xref). *)
(*                                                                         *)
(* A Python string is a sequence of one-character strings, so that the     *)
(* regular expression, strip, split, join and replace are computed on the  *)
(* characters.  Python's None is the value None below, a sequence that is  *)
(* no string of characters.                                                *)
(***************************************************************************)
EXTENDS Integers, Sequences, FiniteSets, TLC

VARIABLES
    objects,    \* env.domaindata['dn']['objects']: fullname -> <<docname, objtype>>
    dn_prefix,  \* env.temp_data['dn:prefix'] (None when the key is unset)
    docname,    \* env.docname: the document being read, NoDoc between documents
    ids,        \* state.document.ids of the document being read
    stack,      \* the directives being run, innermost last
    warning,    \* what the reporter was told by the latest handler
    error,      \* the exception that left the latest handler, NoError if none
    registered, \* history: the full names each document wrote to the registry
                \* in its latest reading
    call,       \* the function the host applied last on its own, and its arguments
    ret         \* what that function returned

vars == <<objects, dn_prefix, docname, ids, stack, warning, error, registered,
          call, ret>>

---------------------------------------------------------------------------
(* Python values *)

None == <<"<None>">>
NoneList == <<None>>
NoObj == <<"<None>">>
NoDoc == "<nodoc>"
NoError == "<noerror>"
NoWarning == [name |-> None, doc |-> NoDoc]
Idle == [fn |-> "idle"]

\* Python truth of a string or None: None and '' are false
Truthy(s) == s /= None /\ s /= <<>>

\* [a-zA-Z0-9_], what \w matches in a byte-string pattern
WordChars ==
    {"a","b","c","d","e","f","g","h","i","j","k","l","m","n","o","p","q","r",
     "s","t","u","v","w","x","y","z","A","B","C","D","E","F","G","H","I","J",
     "K","L","M","N","O","P","Q","R","S","T","U","V","W","X","Y","Z","0","1",
     "2","3","4","5","6","7","8","9","_"}

\* what \s matches and what str.strip() removes
Whitespace == {" ", "\t", "\n", "\r", "\f"}

\* the class [\w\_\-\.] of the prefix group
PrefixChars == WordChars \cup {"-", "."}

\* the class [\w\_\-] of the member group
MemberChars == WordChars \cup {"-"}

AllIn(s, cls) == \A i \in 1..Len(s) : s[i] \in cls

\* the position of the first / last occurrence of character c in s, 0 if none
FirstIndex(s, c) ==
    IF \E i \in 1..Len(s) : s[i] = c
    THEN CHOOSE i \in 1..Len(s) : s[i] = c /\ \A j \in 1..(i-1) : s[j] /= c
    ELSE 0

LastIndex(s, c) ==
    IF \E i \in 1..Len(s) : s[i] = c
    THEN CHOOSE i \in 1..Len(s) : s[i] = c /\ \A j \in (i+1)..Len(s) : s[j] /= c
    ELSE 0

\* str.strip()
RECURSIVE LStrip(_)
LStrip(s) == IF s /= <<>> /\ Head(s) \in Whitespace THEN LStrip(Tail(s)) ELSE s

RECURSIVE RStrip(_)
RStrip(s) ==
    IF s /= <<>> /\ s[Len(s)] \in Whitespace
    THEN RStrip(SubSeq(s, 1, Len(s) - 1))
    ELSE s

Strip(s) == RStrip(LStrip(s))

\* '.'.join([a, b])
DotJoin(a, b) == a \o <<".">> \o b

\* str.replace('$', '_S_')
RECURSIVE ReplaceSigil(_)
ReplaceSigil(s) ==
    IF s = <<>> THEN <<>>
    ELSE IF Head(s) = "$" THEN <<"_", "S", "_">> \o ReplaceSigil(Tail(s))
    ELSE <<Head(s)>> \o ReplaceSigil(Tail(s))

---------------------------------------------------------------------------
(* DotNetSignature *)

\* DotNetSignature(prefix, member, arguments)
DotNetSignature(prefix, member, arguments) ==
    [exc |-> NoError, prefix |-> prefix, member |-> member, arguments |-> arguments]

\* cls() with no arguments: __init__ requires prefix, member and arguments
DotNetSignatureNoArgs == [exc |-> "TypeError"]

\* re.split(r'\,\s+', s): cut at every comma followed by whitespace, the
\* whole run of whitespace being part of the delimiter
RECURSIVE SplitFrom(_, _)
SplitFrom(s, cur) ==
    IF s = <<>> THEN <<cur>>
    ELSE IF Head(s) = "," /\ Len(s) >= 2 /\ s[2] \in Whitespace
    THEN <<cur>> \o SplitFrom(LStrip(Tail(s)), <<>>)
    ELSE SplitFrom(Tail(s), Append(cur, Head(s)))

\* a split at every comma, whatever follows it
RECURSIVE SplitEveryComma(_, _)
SplitEveryComma(s, cur) ==
    IF s = <<>> THEN <<cur>>
    ELSE IF Head(s) = ","
    THEN <<cur>> \o SplitEveryComma(LStrip(Tail(s)), <<>>)
    ELSE SplitEveryComma(Tail(s), Append(cur, Head(s)))

SplitArgumentsEveryComma(s) == SplitEveryComma(s, <<>>)

SplitArguments(s) == SplitFrom(s, <<>>)

\* The three parts the pattern
\*   ^(?:(?P<prefix>[\w\_\-\.]+)\.|)(?P<member>[\w\_\-]+)(?:\((?P<arguments>[^)]+)\)|)$
\* cuts a string into: neither prefix nor member holds a parenthesis and the
\* arguments hold no ')', so the argument group opens at the first '(' and
\* closes at the last character; the member holds no '.', so the prefix ends
\* at the last '.' before the member.
SigHead(s) ==
    IF FirstIndex(s, "(") = 0 THEN s ELSE SubSeq(s, 1, FirstIndex(s, "(") - 1)

SigArgString(s) ==
    IF FirstIndex(s, "(") = 0 THEN None
    ELSE SubSeq(s, FirstIndex(s, "(") + 1, Len(s) - 1)

SigPrefix(s) ==
    IF LastIndex(SigHead(s), ".") = 0 THEN None
    ELSE SubSeq(SigHead(s), 1, LastIndex(SigHead(s), ".") - 1)

SigMember(s) ==
    SubSeq(SigHead(s), LastIndex(SigHead(s), ".") + 1, Len(SigHead(s)))

\* '$' also matches before one trailing newline
Chomp(s) ==
    IF s /= <<>> /\ s[Len(s)] = "\n" THEN SubSeq(s, 1, Len(s) - 1) ELSE s

\* re_signature.match(signature) is not None
SignatureMatches(signature) ==
    LET s == Chomp(signature) IN
    /\ SigMember(s) /= <<>>
    /\ AllIn(SigMember(s), MemberChars)
    /\ SigPrefix(s) /= None => (SigPrefix(s) /= <<>> /\ AllIn(SigPrefix(s), PrefixChars))
    /\ FirstIndex(s, "(") /= 0 =>
          /\ s[Len(s)] = ")"
          /\ SigArgString(s) /= <<>>
          /\ \A i \in 1..Len(SigArgString(s)) : SigArgString(s)[i] /= ")"

\* DotNetSignature.from_string
from_string(signature) ==
    IF SignatureMatches(signature)
    THEN DotNetSignature(
            SigPrefix(Chomp(signature)),
            SigMember(Chomp(signature)),
            IF Truthy(SigArgString(Chomp(signature)))
            THEN SplitArguments(SigArgString(Chomp(signature)))
            ELSE NoneList)
    ELSE DotNetSignatureNoArgs

\* DotNetSignature.full_name
full_name(sig) ==
    IF sig.prefix /= None THEN DotJoin(sig.prefix, sig.member) ELSE sig.member

---------------------------------------------------------------------------
(* The construct kinds: _types *)

DisplayNamespace == <<"n","a","m","e","s","p","a","c","e"," ">>
DisplayClass == <<"c","l","a","s","s"," ">>
DisplayStructure == <<"s","t","r","u","c","t","u","r","e"," ">>
DisplayInterface == <<"i","n","t","e","r","f","a","c","e"," ">>
DisplayDelegate == <<"d","e","l","e","g","a","t","e"," ">>
DisplayEnumeration == <<"e","n","u","m","e","r","a","t","i","o","n"," ">>

\* the directive classes, by long_name (the key of DotNetDomain.directives
\* and so the objtype of a directive): nested says the class derives from
\* DotNetObjectNested
Types ==
    [namespace   |-> [short_name |-> "ns", display_prefix |-> DisplayNamespace,
                      has_arguments |-> FALSE, nested |-> TRUE],
     class       |-> [short_name |-> "cls", display_prefix |-> DisplayClass,
                      has_arguments |-> FALSE, nested |-> TRUE],
     structure   |-> [short_name |-> "struct", display_prefix |-> DisplayStructure,
                      has_arguments |-> FALSE, nested |-> TRUE],
     interface   |-> [short_name |-> "iface", display_prefix |-> DisplayInterface,
                      has_arguments |-> FALSE, nested |-> TRUE],
     delegate    |-> [short_name |-> "del", display_prefix |-> DisplayDelegate,
                      has_arguments |-> FALSE, nested |-> TRUE],
     enumeration |-> [short_name |-> "enum", display_prefix |-> DisplayEnumeration,
                      has_arguments |-> FALSE, nested |-> TRUE],
     method      |-> [short_name |-> "meth", display_prefix |-> None,
                      has_arguments |-> TRUE, nested |-> FALSE],
     property    |-> [short_name |-> "prop", display_prefix |-> None,
                      has_arguments |-> TRUE, nested |-> FALSE]]

---------------------------------------------------------------------------
(* DotNetObject.handle_signature *)

\* ', '.join(arguments)
RECURSIVE CommaJoin(_)
CommaJoin(arguments) ==
    IF arguments = <<>> THEN <<>>
    ELSE IF Len(arguments) = 1 THEN arguments[1]
    ELSE arguments[1] \o <<",", " ">> \o CommaJoin(Tail(arguments))

Node(type, text) == [node |-> type, text |-> text]

\* lines 130-131: a parsed prefix equal to the context prefix is dropped
SuppressPrefix(sig, prefix) ==
    IF Truthy(prefix) /\ sig.prefix = prefix
    THEN [sig EXCEPT !.prefix = None]
    ELSE sig

\* lines 137-150: the children appended to signode, in order
Rendered(sig, objtype) ==
    (IF Truthy(Types[objtype].display_prefix)
     THEN <<Node("desc_annotation", Types[objtype].display_prefix)>> ELSE <<>>)
    \o (IF sig.prefix /= None
        THEN <<Node("desc_addname", sig.prefix \o <<".">>)>> ELSE <<>>)
    \o <<Node("desc_name", sig.member)>>
    \o (IF Types[objtype].has_arguments
        THEN IF sig.arguments = NoneList \/ sig.arguments = <<>>
             THEN <<Node("desc_parameterlist", None)>>
             ELSE <<Node("desc_parameterlist", CommaJoin(sig.arguments))>>
        ELSE <<>>)

\* handle_signature(sig, signode) of a directive of kind objtype, with
\* temp_data['dn:prefix'] = prefix: the exception it raises, or the signode
\* it fills and the (full name, prefix) pair it returns
handle_signature(rawsig, prefix, objtype) ==
    LET parsed == from_string(Strip(rawsig)) IN
    IF parsed.exc /= NoError
    THEN [exc |-> parsed.exc]
    ELSE LET sig == SuppressPrefix(parsed, prefix) IN
         [exc |-> NoError,
          signode |-> [object |-> sig.member,
                       package |-> sig.prefix,
                       fullname |-> full_name(sig),
                       children |-> Rendered(sig, objtype)],
          name |-> <<full_name(sig), sig.prefix>>]

---------------------------------------------------------------------------
(* DotNetObject.add_target_and_index *)

\* DotNetObject.get_index_text: '' for every objtype but 'function',
\* 'package', 'data' and 'attribute'
IndexFunction == <<"(",")"," ","(","b","u","i","l","t","-","i","n"," ",
                   "f","u","n","c","t","i","o","n",")">>

get_index_text(objtype, objectname, name_obj) ==
    LET name == name_obj[1]
        obj == name_obj[2] IN
    IF objtype = "function"
    THEN IF ~Truthy(obj)
         THEN name \o IndexFunction
         ELSE name \o <<"(",")"," ","(">> \o obj \o <<" ","m","e","t","h","o","d",")">>
    ELSE IF objtype = "package"
    THEN name \o <<" ","(","p","a","c","k","a","g","e",")">>
    ELSE IF objtype = "data"
    THEN name \o <<" ","(","g","l","o","b","a","l"," ","v","a","r","i","a","b","l","e",
                   " ","o","r"," ","c","o","n","s","t","a","n","t",")">>
    ELSE IF objtype = "attribute"
    THEN name \o <<" ","(">> \o obj \o <<" ","a","t","t","r","i","b","u","t","e",")">>
    ELSE <<>>

\* dict assignment objects[key] = value
DictSet(d, key, value) ==
    [k \in DOMAIN d \cup {key} |-> IF k = key THEN value ELSE d[k]]

\* a registration that keeps the entry the registry holds
RegisterKeepsFirst(objs, fullname, doc, objtype) ==
    IF fullname \in DOMAIN objs THEN objs ELSE DictSet(objs, fullname, <<doc, objtype>>)

\* line 172: the registry after objects[fullname] = self.env.docname, self.objtype
Register(objs, fullname, doc, objtype) == DictSet(objs, fullname, <<doc, objtype>>)

\* a duplicate check that tells the reporter nothing
DuplicateWarningSilent(objs, fullname) == NoWarning

\* lines 166-171: the warning of a duplicate, naming the document of the
\* entry the registry holds
DuplicateWarning(objs, fullname) ==
    IF fullname \in DOMAIN objs
    THEN [name |-> fullname, doc |-> objs[fullname][1]]
    ELSE NoWarning

\* line 160: the guard of the registration block
IsNewTarget(fullname, docids) == fullname \notin docids

\* add_target_and_index(name_obj, sig, signode) of the directive frame f in
\* document doc: the frame, the document's ids, the registry and the warning
\* it leaves
add_target_and_index(f, doc, docids, objs) ==
    LET name_obj == f.names[Len(f.names)]
        fullname == name_obj[1]
        indextext == get_index_text(f.objtype, None, name_obj)
        entries == IF Truthy(indextext)
                   THEN Append(f.entries,
                               <<<<"single">>, indextext, ReplaceSigil(fullname), <<>>>>)
                   ELSE f.entries
    IN  IF IsNewTarget(fullname, docids)
        THEN [frame |-> [f EXCEPT !.signode.names = Append(@, fullname),
                                  !.signode.ids = Append(@, ReplaceSigil(fullname)),
                                  !.signode.first = (f.names = <<>>),
                                  !.entries = entries],
              ids |-> docids \cup {ReplaceSigil(fullname)},
              objects |-> Register(objs, fullname, doc, f.objtype),
              warning |-> DuplicateWarning(objs, fullname)]
        ELSE [frame |-> [f EXCEPT !.entries = entries],
              ids |-> docids,
              objects |-> objs,
              warning |-> NoWarning]

---------------------------------------------------------------------------
(* DotNetObjectNested *)

\* line 211: the prefix before_content stores, from the (parent, prefix)
\* pair popped off self.names
PushedPrefix(name_obj) == name_obj[2]

\* before_content of the frame f with temp_data['dn:prefix'] = prefix
before_content(f, prefix) ==
    IF ~Types[f.objtype].nested
    THEN [frame |-> f, prefix |-> prefix]
    ELSE IF f.names /= <<>>
    THEN [frame |-> [f EXCEPT !.prefix_existing = prefix,
                              !.names = SubSeq(@, 1, Len(@) - 1),
                              !.clsname_set = "True"],
          prefix |-> PushedPrefix(f.names[Len(f.names)])]
    ELSE [frame |-> [f EXCEPT !.prefix_existing = prefix], prefix |-> prefix]

\* line 217: the prefix after_content stores when clsname_set is true
PoppedPrefix(f) == None

\* after_content of the frame f: clsname_set is an attribute only
\* before_content sets, so reading it unset raises AttributeError
after_content(f, prefix) ==
    IF ~Types[f.objtype].nested
    THEN [exc |-> NoError, prefix |-> prefix]
    ELSE IF f.clsname_set = "unset"
    THEN [exc |-> "AttributeError", prefix |-> prefix]
    ELSE [exc |-> NoError, prefix |-> PoppedPrefix(f)]

---------------------------------------------------------------------------
(* DotNetDomain *)

EmptyDict == [k \in {} |-> NoObj]

\* a purge that stops at the first entry of the document it deletes
clear_doc_first(objs, doc) ==
    IF \E n \in DOMAIN objs : objs[n][1] = doc
    THEN LET first == CHOOSE n \in DOMAIN objs : objs[n][1] = doc IN
         [k \in DOMAIN objs \ {first} |-> objs[k]]
    ELSE objs

\* a purge that empties the registry
clear_doc_all(objs, doc) == [k \in {} |-> NoObj]

\* clear_doc: items() is a list, so every entry of the document is deleted
clear_doc(objs, doc) ==
    [k \in {n \in DOMAIN objs : objs[n][1] /= doc} |-> objs[k]]

\* lines 350-351: a trailing '()' is cut off
SkipParens(name) ==
    IF Len(name) >= 2 /\ name[Len(name) - 1] = "(" /\ name[Len(name)] = ")"
    THEN SubSeq(name, 1, Len(name) - 2)
    ELSE name

\* objects.get(key)
DictGet(d, key) == IF key \in DOMAIN d THEN d[key] ELSE NoObj

\* a search that prefers the qualified name whatever the order
NewNameQualifiedFirst(objs, pkg, name, searchorder) ==
    IF Truthy(pkg) /\ DotJoin(pkg, name) \in DOMAIN objs
    THEN DotJoin(pkg, name)
    ELSE IF searchorder = 1 \/ name \in DOMAIN objs THEN name ELSE None

\* a search whose specific order falls back to no match instead of the
\* bare name
NewNameNoFallback(objs, pkg, name, searchorder) ==
    IF searchorder = 1
    THEN IF Truthy(pkg) /\ DotJoin(pkg, name) \in DOMAIN objs
         THEN DotJoin(pkg, name) ELSE None
    ELSE IF name \in DOMAIN objs THEN name
         ELSE IF Truthy(pkg) /\ DotJoin(pkg, name) \in DOMAIN objs
         THEN DotJoin(pkg, name)
         ELSE None

\* lines 363-372: the key looked up, None when the default order finds none
NewName(objs, pkg, name, searchorder) ==
    LET fullname == DotJoin(pkg, name) IN
    IF searchorder = 1
    THEN IF Truthy(pkg) /\ fullname \in DOMAIN objs THEN fullname ELSE name
    ELSE IF name \in DOMAIN objs THEN name
         ELSE IF Truthy(pkg) /\ fullname \in DOMAIN objs THEN fullname
         ELSE None

\* find_obj: the empty list for an empty name, else the pair (newname, entry)
find_obj(objs, pkg, target, searchorder) ==
    LET name == SkipParens(target) IN
    IF name = <<>>
    THEN [empty |-> TRUE]
    ELSE [empty |-> FALSE,
          name |-> NewName(objs, pkg, name, searchorder),
          obj |-> DictGet(objs, NewName(objs, pkg, name, searchorder))]

\* line 380: node.hasattr('refspecific') and 1 or 0
SearchOrder(node) == IF node.refspecific THEN 1 ELSE 0

\* resolve_xref: unpacking the empty list raises ValueError; no entry gives
\* None; else the reference node make_refnode builds
resolve_xref(objs, fromdocname, target, node) ==
    LET found == find_obj(objs, node.namespace, target, SearchOrder(node)) IN
    IF found.empty
    THEN [exc |-> "ValueError"]
    ELSE IF found.obj = NoObj
    THEN [exc |-> NoError, link |-> FALSE]
    ELSE [exc |-> NoError, link |-> TRUE,
          refdoc |-> fromdocname,
          todocname |-> found.obj[1],
          targetid |-> ReplaceSigil(found.name),
          title |-> found.name]

---------------------------------------------------------------------------
(* DotNetXRefRole *)

\* one leading character c removed, if there is one
LStripCharOnce(s, c) == IF s /= <<>> /\ Head(s) = c THEN Tail(s) ELSE s

\* str.lstrip(c)
RECURSIVE LStripChar(_, _)
LStripChar(s, c) == IF s /= <<>> /\ Head(s) = c THEN LStripChar(Tail(s), c) ELSE s

\* env.temp_data.get(key): 'dn:prefix' is the one key the handlers write
temp_data_get(key) == IF key = "dn:prefix" THEN dn_prefix ELSE None

\* the title of an implicit-title reference: title[dot+1:] after a '~'
ShortTitle(title) ==
    LET t1 == LStripChar(title, ".") IN
    IF t1 /= <<>> /\ t1[1] = "~"
    THEN LET t2 == Tail(t1) IN SubSeq(t2, LastIndex(t2, ".") + 1, Len(t2))
    ELSE t1

\* DotNetXRefRole.process_link
process_link(object, namespace, has_explicit_title, title, target) ==
    LET title1 == IF ~has_explicit_title THEN ShortTitle(title) ELSE title
        target1 == IF ~has_explicit_title THEN LStripChar(target, "~") ELSE target
        specific == target1 /= <<>> /\ target1[1] = "."
    IN  [title |-> title1,
         target |-> IF specific THEN Tail(target1) ELSE target1,
         refnode |-> [object |-> object, namespace |-> namespace,
                      refspecific |-> specific]]

---------------------------------------------------------------------------
(* The build: documents read one at a time, directives run in document     *)
(* order.  ObjectDescription.run calls, for a directive, handle_signature,  *)
(* add_target_and_index, before_content, the parse of the nested content    *)
(* and after_content, in this order and with no exception handler for       *)
(* anything but ValueError.  Each directive here carries one signature    *)
(* line and no noindex option, so self.names holds one pair when            *)
(* before_content runs.                                                     *)

MaxDepth == 2

Docs == {"docA", "docB"}

\* the objtypes of the directives of the documents read
DirectiveTypes == {"class", "method"}

s_N == <<"N">>
s_C == <<"C">>
s_NC == <<"N", ".", "C">>
s_Cparen == <<"C", "(", ")">>

\* the signatures of the directives of the documents read
Signatures == {s_N, <<" ", "C">>, s_NC, s_Cparen}

\* the targets of the references of the documents read
Mentions == {s_C}

Top == stack[Len(stack)]

SetTop(f) == [stack EXCEPT ![Len(stack)] = f]

NewFrame(objtype, rawsig, handled) ==
    [objtype |-> objtype,
     sig |-> rawsig,
     names |-> <<handled.name>>,
     signode |-> [object |-> handled.signode.object,
                  package |-> handled.signode.package,
                  fullname |-> handled.signode.fullname,
                  children |-> handled.signode.children,
                  names |-> <<>>, ids |-> <<>>, first |-> FALSE],
     entries |-> <<>>,
     clsname_set |-> "unset",
     prefix_existing |-> None,
     pc |-> "add_target_and_index"]

Init ==
    /\ objects = EmptyDict
    /\ dn_prefix = None
    /\ docname = NoDoc
    /\ ids = {}
    /\ stack = <<>>
    /\ warning = NoWarning
    /\ error = NoError
    /\ registered = [d \in Docs |-> {}]
    /\ call = Idle
    /\ ret = Idle

\* the host starts to read document d, whose entries it has purged
ReadDoc(d) ==
    /\ error = NoError
    /\ docname = NoDoc
    /\ \A n \in DOMAIN objects : objects[n][1] /= d
    /\ docname' = d
    /\ ids' = {}
    /\ dn_prefix' = None
    /\ warning' = NoWarning
    /\ registered' = [registered EXCEPT ![d] = {}]
    /\ call' = Idle
    /\ UNCHANGED <<objects, stack, error, ret>>

\* the host has read the document to its end and clears temp_data
EndDoc ==
    /\ error = NoError
    /\ docname /= NoDoc
    /\ stack = <<>>
    /\ docname' = NoDoc
    /\ ids' = {}
    /\ dn_prefix' = None
    /\ warning' = NoWarning
    /\ call' = Idle
    /\ ret' = Idle
    /\ UNCHANGED <<objects, stack, error, registered>>

\* a directive of kind objtype with signature rawsig is met, at the top
\* level of the document or in the content of the directive being run
HandleSignature(objtype, rawsig) ==
    /\ error = NoError
    /\ docname /= NoDoc
    /\ Len(stack) < MaxDepth
    /\ stack /= <<>> => Top.pc = "content"
    /\ LET handled == handle_signature(rawsig, dn_prefix, objtype) IN
       IF handled.exc /= NoError
       THEN /\ error' = handled.exc
            /\ UNCHANGED stack
       ELSE /\ stack' = Append(stack, NewFrame(objtype, rawsig, handled))
            /\ UNCHANGED error
    /\ warning' = NoWarning
    /\ ret' = Idle
    /\ UNCHANGED <<objects, dn_prefix, docname, ids, registered, call>>

AddTargetAndIndex ==
    /\ error = NoError
    /\ stack /= <<>>
    /\ Top.pc = "add_target_and_index"
    /\ LET done == add_target_and_index(Top, docname, ids, objects) IN
       /\ stack' = SetTop([done.frame EXCEPT !.pc = "before_content"])
       /\ ids' = done.ids
       /\ objects' = done.objects
       /\ warning' = done.warning
       /\ registered' =
             IF IsNewTarget(Top.names[Len(Top.names)][1], ids)
             THEN [registered EXCEPT ![docname] = @ \cup {Top.names[Len(Top.names)][1]}]
             ELSE registered
    /\ ret' = Idle
    /\ UNCHANGED <<dn_prefix, docname, error, call>>

BeforeContent ==
    /\ error = NoError
    /\ stack /= <<>>
    /\ Top.pc = "before_content"
    /\ LET done == before_content(Top, dn_prefix) IN
       /\ stack' = SetTop([done.frame EXCEPT !.pc = "content"])
       /\ dn_prefix' = done.prefix
    /\ warning' = NoWarning
    /\ ret' = Idle
    /\ UNCHANGED <<objects, docname, ids, error, registered, call>>

AfterContent ==
    /\ error = NoError
    /\ stack /= <<>>
    /\ Top.pc = "content"
    /\ LET done == after_content(Top, dn_prefix) IN
       /\ error' = done.exc
       /\ dn_prefix' = done.prefix
    /\ stack' = SubSeq(stack, 1, Len(stack) - 1)
    /\ warning' = NoWarning
    /\ ret' = Idle
    /\ UNCHANGED <<objects, docname, ids, registered, call>>

\* a reference role is met in the text of the document, at its top level
\* or in the content of the directive being run; the author wrote `target`
\* and no explicit title
ProcessLink(target) ==
    /\ error = NoError
    /\ docname /= NoDoc
    /\ stack /= <<>> => Top.pc = "content"
    /\ ret = Idle
    /\ ret' = [fn |-> "process_link", text |-> target,
               value |-> process_link(temp_data_get("dn:object"),
                                      temp_data_get("dn:namespace"),
                                      FALSE, target, target)]
    /\ warning' = NoWarning
    /\ UNCHANGED <<objects, dn_prefix, docname, ids, stack, error, registered,
                   call>>

\* the host purges document d, removed from the build or about to be read
ClearDoc(d) ==
    /\ error = NoError
    /\ docname = NoDoc
    /\ \E n \in DOMAIN objects : objects[n][1] = d
    /\ objects' = clear_doc(objects, d)
    /\ warning' = NoWarning
    /\ call' = [fn |-> "clear_doc", docname |-> d]
    /\ UNCHANGED <<dn_prefix, docname, ids, stack, error, registered, ret>>

Next ==
    \/ \E d \in Docs : ReadDoc(d)
    \/ EndDoc
    \/ \E objtype \in DirectiveTypes, rawsig \in Signatures :
          HandleSignature(objtype, rawsig)
    \/ AddTargetAndIndex
    \/ BeforeContent
    \/ AfterContent
    \/ \E target \in Mentions : ProcessLink(target)
    \/ \E d \in Docs : ClearDoc(d)

Spec == Init /\ [][Next]_vars

---------------------------------------------------------------------------
(* Registration: C1, C8 *)

\* the directive about to run add_target_and_index, and the name it registers
Registering == stack /= <<>> /\ Top.pc = "add_target_and_index"

RegisteredName == Top.names[Len(Top.names)][1]

\* C1 as stated: first registration wins.  While a document is read, every
\* entry the registry holds keeps its (document, kind) pair, and no
\* exception leaves the registration.
C1_FirstRegistrationWins ==
    [][Registering =>
         /\ \A n \in DOMAIN objects :
               n \in DOMAIN objects' /\ objects'[n] = objects[n]
         /\ error' = NoError]_vars

\* C1 as the code has it: last registration wins.  A registration of a full
\* name the registry holds for another document replaces the entry by
\* (the registering document, the kind of the later registration), leaves
\* every other entry as it was, warns, and raises nothing.
C1_LastRegistrationWins ==
    [][(/\ Registering
        /\ RegisteredName \in DOMAIN objects
        /\ objects[RegisteredName][1] /= docname) =>
         /\ DOMAIN objects' = DOMAIN objects
         /\ objects'[RegisteredName] = <<docname, Top.objtype>>
         /\ \A n \in DOMAIN objects \ {RegisteredName} : objects'[n] = objects[n]
         /\ warning' /= NoWarning
         /\ error' = NoError]_vars

\* a registration has just replaced the entry another document wrote
C1_Witness ==
    /\ stack /= <<>>
    /\ Top.pc = "before_content"
    /\ warning /= NoWarning
    /\ warning.doc /= docname
    /\ warning.name \in DOMAIN objects
    /\ objects[warning.name] = <<docname, Top.objtype>>
    /\ \E d \in Docs \ {docname} : warning.name \in registered[d]

\* C8 as stated: every run of add_target_and_index for a full name the
\* registry holds warns, naming the duplicate and the document of the entry.
C8_EveryDuplicateWarns ==
    [][(Registering /\ RegisteredName \in DOMAIN objects) =>
         warning' = [name |-> RegisteredName, doc |-> objects[RegisteredName][1]]]_vars

\* C8 as the code has it: the run warns when the full name is in the
\* registry and is not yet an id of the document being read; a name that is
\* already an id of this document is skipped without a warning.
C8_DuplicateWarnsUnlessOwnId ==
    [][Registering =>
         /\ (RegisteredName \in DOMAIN objects /\ RegisteredName \notin ids) =>
               warning' = [name |-> RegisteredName,
                           doc |-> objects[RegisteredName][1]]
         /\ RegisteredName \in ids => warning' = NoWarning /\ objects' = objects]_vars

\* a warning was just given for the name of the directive being run
C8_Witness ==
    /\ stack /= <<>>
    /\ Top.pc = "before_content"
    /\ warning = [name |-> Top.signode.fullname, doc |-> warning.doc]
    /\ warning.doc \in Docs

---------------------------------------------------------------------------
(* Purge: C7, C18 *)

\* clear_doc(d) was the step just taken
Purging(d) == call' = [fn |-> "clear_doc", docname |-> d] /\ objects' /= objects

Unresolvable(objs, name) ==
    /\ find_obj(objs, None, name, 0).obj = NoObj
    /\ find_obj(objs, None, name, 1).obj = NoObj
    /\ ~resolve_xref(objs, "docA", name, [namespace |-> None, refspecific |-> FALSE]).link

\* C7 as stated: after clear_doc(d) no full name that d registered resolves.
C7_RegisteredNamesUnresolvable ==
    [][\A d \in Docs : Purging(d) =>
          \A n \in registered[d] : Unresolvable(objects', n)]_vars

\* C7 as the code has it: after clear_doc(d) no full name whose entry d held
\* resolves, and no reference resolves to document d; a name that another
\* document registered after d stays resolvable, to that document.
C7_HeldNamesUnresolvable ==
    [][\A d \in Docs : Purging(d) =>
          /\ \A n \in DOMAIN objects : objects[n][1] = d => Unresolvable(objects', n)
          /\ \A n \in DOMAIN objects, pkg \in {None} \cup DOMAIN objects, o \in {0, 1} :
                find_obj(objects', pkg, n, o).obj = NoObj
                \/ find_obj(objects', pkg, n, o).obj[1] /= d]_vars

\* a document that held two entries was purged, and other entries remain
C7_Witness ==
    /\ call.fn = "clear_doc"
    /\ Cardinality(registered[call.docname]) >= 2
    /\ \A n \in registered[call.docname] : n \notin DOMAIN objects
    /\ objects /= EmptyDict

\* C18: clear_doc(d) removes every entry whose document is d and leaves
\* every entry of another document as it was, key, document and kind; right
\* after it no entry has document d.
C18_PurgeIsExact ==
    [][\A d \in Docs : Purging(d) =>
          /\ DOMAIN objects' = {n \in DOMAIN objects : objects[n][1] /= d}
          /\ \A n \in DOMAIN objects' : objects'[n] = objects[n]
          /\ \A n \in DOMAIN objects' : objects'[n][1] /= d]_vars

\* a document was purged while the other document held entries, which remain
C18_Witness ==
    /\ call.fn = "clear_doc"
    /\ registered[call.docname] /= {}
    /\ \E n \in DOMAIN objects : objects[n][1] /= call.docname
    /\ \A n \in DOMAIN objects : objects[n][1] /= call.docname

---------------------------------------------------------------------------
(* Nesting: C2, C3, C4 *)

\* C2: leaving the body of a nesting construct that pushed a prefix restores
\* the prefix in force before its body was entered.
C2_PopRestoresPrefix ==
    [][(/\ stack /= <<>>
        /\ Top.pc = "content"
        /\ Top.clsname_set = "True"
        /\ Len(stack') < Len(stack)) =>
         dn_prefix' = Top.prefix_existing]_vars

\* C3: when handle_signature runs for a construct directly inside the body
\* of a nesting construct, the context prefix it reads is the full name of
\* the enclosing construct.
C3_PushUsesFullName ==
    [][(/\ stack /= <<>>
        /\ Top.pc = "content"
        /\ Types[Top.objtype].nested
        /\ Len(stack') > Len(stack)) =>
         dn_prefix = Top.signode.fullname]_vars

\* C4: a signature whose parsed prefix equals the non-empty context prefix
\* is rendered without the prefix, and the full name handle_signature
\* returns is still prefix + '.' + member.
C4_SuppressionKeepsFullName ==
    (/\ stack /= <<>>
     /\ Top.pc = "add_target_and_index"
     /\ Truthy(dn_prefix)
     /\ from_string(Strip(Top.sig)).prefix = dn_prefix) =>
       /\ \A i \in 1..Len(Top.signode.children) :
             Top.signode.children[i].node /= "desc_addname"
       /\ Top.names[1][1] = DotJoin(from_string(Strip(Top.sig)).prefix,
                                     from_string(Strip(Top.sig)).member)

\* the index texts of a namespace and of a property with no enclosing object
IndexPackage == <<" ","(","p","a","c","k","a","g","e",")">>
IndexAttribute == <<" ","(","N","o","n","e"," ","a","t","t","r","i","b","u","t","e",")">>

\* C13: each run of add_target_and_index for a method appends exactly one
\* index entry ('single', '<name>() (built-in function)', sanitised anchor
\* id, '') when there is no enclosing object; a namespace appends
\* '<name> (package)', a property '<name> (<obj> attribute)'; the other
\* kinds append no entry.
C13_IndexEntryPerKind ==
    (stack /= <<>> /\ Top.pc = "before_content") =>
       LET f == Top
           name == f.names[Len(f.names)][1]
           text == CASE f.objtype = "method" -> name \o IndexFunction
                     [] f.objtype = "namespace" -> name \o IndexPackage
                     [] OTHER -> name \o IndexAttribute
       IN  IF f.objtype \in {"method", "namespace", "property"}
           THEN f.entries = << << <<"single">>, text,
                                  ReplaceSigil(name), <<>> >> >>
           ELSE f.entries = <<>>

\* a reference was processed in the body of a nesting construct that
\* established a context prefix
MentionInContext ==
    /\ ret.fn = "process_link"
    /\ stack /= <<>>
    /\ Top.pc = "content"
    /\ Types[Top.objtype].nested
    /\ Top.clsname_set = "True"
    /\ Truthy(dn_prefix)

\* C17: the context namespace process_link records on a reference node is
\* the context prefix the innermost enclosing nesting construct
\* established, so that a bare target mentioned in that construct resolves
\* to the name qualified by the prefix when that name alone is registered.
C17_ReferenceContextFollowsNesting ==
    MentionInContext =>
       /\ ret.value.refnode.namespace = dn_prefix
       /\ (/\ DotJoin(dn_prefix, ret.value.target) \in DOMAIN objects
           /\ ret.value.target \notin DOMAIN objects)
          => LET resolved == resolve_xref(objects, docname, ret.value.target,
                                          ret.value.refnode)
             IN  /\ resolved.exc = NoError
                 /\ resolved.link
                 /\ resolved.title = DotJoin(dn_prefix, ret.value.target)

---------------------------------------------------------------------------
(* The resolver applied on its own: the registry, the target and the       *)
(* reference node are drawn from bounded sets, then find_obj or            *)
(* resolve_xref is applied once.                                           *)

\* the full names of the registries drawn
FindKeys == {s_C, s_N, s_NC}

\* the targets and context namespaces of the references drawn
FindTargets == {s_C, s_Cparen, s_NC, <<"(", ")">>, <<>>, <<"M">>}

FindNamespaces == {None, <<>>, s_N, <<"M">>}

Registries ==
    UNION {[keys -> Docs \X DirectiveTypes] : keys \in SUBSET FindKeys}

FindInit ==
    /\ objects \in Registries
    /\ call \in [fn : {"reference"}, target : FindTargets,
                 namespace : FindNamespaces, refspecific : BOOLEAN]
    /\ ret = Idle
    /\ dn_prefix = None
    /\ docname = NoDoc
    /\ ids = {}
    /\ stack = <<>>
    /\ warning = NoWarning
    /\ error = NoError
    /\ registered = [d \in Docs |-> {}]

ApplyFindObj(searchorder) ==
    /\ call.fn = "reference"
    /\ ret = Idle
    /\ ret' = [fn |-> "find_obj", searchorder |-> searchorder,
               value |-> find_obj(objects, call.namespace, call.target, searchorder)]
    /\ UNCHANGED <<objects, dn_prefix, docname, ids, stack, warning, error,
                   registered, call>>

ApplyResolveXref(fromdocname) ==
    /\ call.fn = "reference"
    /\ ret = Idle
    /\ ret' = [fn |-> "resolve_xref", fromdocname |-> fromdocname,
               value |-> resolve_xref(objects, fromdocname, call.target,
                                      [namespace |-> call.namespace,
                                       refspecific |-> call.refspecific])]
    /\ UNCHANGED <<objects, dn_prefix, docname, ids, stack, warning, error,
                   registered, call>>

FindNext ==
    \/ \E searchorder \in {0, 1} : ApplyFindObj(searchorder)
    \/ \E d \in Docs : ApplyResolveXref(d)

SpecFind == FindInit /\ [][FindNext]_vars

\* the target of the reference with a trailing '()' cut off, and its
\* qualification by the context namespace
BareTarget == SkipParens(call.target)

QualifiedTarget == call.namespace \o <<".">> \o BareTarget

NamespaceGiven == call.namespace /= None

FoundBy(searchorder) ==
    ret.fn = "find_obj" /\ ret.searchorder = searchorder /\ BareTarget /= <<>>

\* C5: with the default search order find_obj returns the bare target and
\* its entry when the bare target is a key of the registry; else the
\* qualified name and its entry when a namespace was given and the
\* qualified name is a key; else no match.
C5_DefaultOrder ==
    FoundBy(0) =>
        IF BareTarget \in DOMAIN objects
        THEN ret.value.name = BareTarget /\ ret.value.obj = objects[BareTarget]
        ELSE IF NamespaceGiven /\ QualifiedTarget \in DOMAIN objects
        THEN /\ ret.value.name = QualifiedTarget
             /\ ret.value.obj = objects[QualifiedTarget]
        ELSE ret.value.obj = NoObj

\* both names are registered and the bare one was returned
C5_Witness ==
    /\ FoundBy(0)
    /\ NamespaceGiven
    /\ BareTarget \in DOMAIN objects
    /\ QualifiedTarget \in DOMAIN objects
    /\ ret.value.name = BareTarget

\* C6: with the specific search order (a reference node that has
\* refspecific) the qualified name and its entry are returned when a
\* namespace was given and the qualified name is a key; else the lookup
\* falls back to the bare target, a match only if the bare target is a key.
C6_SpecificOrder ==
    /\ FoundBy(1) =>
          IF NamespaceGiven /\ QualifiedTarget \in DOMAIN objects
          THEN /\ ret.value.name = QualifiedTarget
               /\ ret.value.obj = objects[QualifiedTarget]
          ELSE /\ ret.value.name = BareTarget
               /\ ret.value.obj =
                     IF BareTarget \in DOMAIN objects THEN objects[BareTarget] ELSE NoObj
    /\ (ret.fn = "resolve_xref" /\ call.refspecific /\ BareTarget /= <<>>) =>
          IF NamespaceGiven /\ QualifiedTarget \in DOMAIN objects
          THEN /\ ret.value.link
               /\ ret.value.title = QualifiedTarget
               /\ ret.value.todocname = objects[QualifiedTarget][1]
          ELSE IF BareTarget \in DOMAIN objects
          THEN /\ ret.value.link
               /\ ret.value.title = BareTarget
               /\ ret.value.todocname = objects[BareTarget][1]
          ELSE ~ret.value.link

\* both names are registered and the reference resolved to the qualified one
C6_Witness ==
    /\ ret.fn = "resolve_xref"
    /\ call.refspecific
    /\ NamespaceGiven
    /\ BareTarget \in DOMAIN objects
    /\ QualifiedTarget \in DOMAIN objects
    /\ ret.value.link
    /\ ret.value.title = QualifiedTarget

\* C11: for every target, the empty string and '()' among them, and every
\* registry, resolve_xref returns a link to an entry of the registry or
\* returns none; it raises nothing.
C11_ResolveNeverRaises ==
    ret.fn = "resolve_xref" =>
       /\ ret.value.exc = NoError
       /\ ret.value.link =>
             /\ ret.value.title \in DOMAIN objects
             /\ ret.value.todocname = objects[ret.value.title][1]

---------------------------------------------------------------------------
(* The parser applied on its own: a signature is drawn from the strings    *)
(* over a small alphabet, then from_string or handle_signature is applied  *)
(* once.                                                                   *)

MaxLen == 4

ParseAlphabet == {"M", "a", ".", "(", ")", ",", " ", "$"}

RECURSIVE StringsUpTo(_)
StringsUpTo(n) ==
    IF n = 0 THEN {<<>>}
    ELSE StringsUpTo(n - 1)
         \cup {Append(s, c) : s \in {t \in StringsUpTo(n - 1) : Len(t) = n - 1},
                              c \in ParseAlphabet}

ParseInputs == StringsUpTo(MaxLen)

\* the context prefixes handle_signature is applied under
ParsePrefixes == {None, <<"M">>}

ParseInit ==
    /\ call \in [fn : {"signature"}, signature : ParseInputs]
    /\ ret = Idle
    /\ objects = EmptyDict
    /\ dn_prefix = None
    /\ docname = NoDoc
    /\ ids = {}
    /\ stack = <<>>
    /\ warning = NoWarning
    /\ error = NoError
    /\ registered = [d \in Docs |-> {}]

ApplyFromString ==
    /\ call.fn = "signature"
    /\ ret = Idle
    /\ ret' = [fn |-> "from_string", value |-> from_string(call.signature)]
    /\ UNCHANGED <<objects, dn_prefix, docname, ids, stack, warning, error,
                   registered, call>>

ApplyHandleSignature(objtype, prefix) ==
    /\ call.fn = "signature"
    /\ ret = Idle
    /\ ret' = [fn |-> "handle_signature", objtype |-> objtype, prefix |-> prefix,
               value |-> handle_signature(call.signature, prefix, objtype)]
    /\ UNCHANGED <<objects, dn_prefix, docname, ids, stack, warning, error,
                   registered, call>>

ParseNext ==
    \/ ApplyFromString
    \/ \E objtype \in DirectiveTypes, prefix \in ParsePrefixes :
          ApplyHandleSignature(objtype, prefix)

SpecParse == ParseInit /\ [][ParseNext]_vars

\* C9: for a signature that does not match the grammar, from_string returns
\* a signature object with neither prefix nor member and raises nothing,
\* and handle_signature goes on to render.
C9_MalformedIsNonFatal ==
    /\ (ret.fn = "from_string" /\ ~SignatureMatches(call.signature)) =>
          /\ ret.value.exc = NoError
          /\ ret.value.prefix = None
          /\ ret.value.member = None
    /\ (ret.fn = "handle_signature" /\ ~SignatureMatches(Strip(call.signature))) =>
          ret.value.exc = NoError

\* a member followed by a parenthesis pair that holds whitespace only
EmptyArgumentList(s) ==
    /\ FirstIndex(s, "(") > 1
    /\ s[Len(s)] = ")"
    /\ AllIn(SubSeq(s, 1, FirstIndex(s, "(") - 1), MemberChars)
    /\ AllIn(SubSeq(s, FirstIndex(s, "(") + 1, Len(s) - 1), Whitespace)

BareMember(s) == s /= <<>> /\ AllIn(s, MemberChars)

\* C10: a member with an empty or whitespace-only parenthesis pair parses to
\* that member with the empty argument list; a member without parentheses
\* parses to that member with no argument list.
C10_EmptyArgumentList ==
    ret.fn = "from_string" =>
       /\ EmptyArgumentList(call.signature) =>
             /\ ret.value.exc = NoError
             /\ ret.value.member =
                   SubSeq(call.signature, 1, FirstIndex(call.signature, "(") - 1)
             /\ ret.value.arguments = <<>>
       /\ BareMember(call.signature) =>
             /\ ret.value.exc = NoError
             /\ ret.value.member = call.signature
             /\ ret.value.arguments = NoneList


\* a name of member characters and at least one '$'
SigilName(s) ==
    /\ s /= <<>>
    /\ AllIn(s, MemberChars \cup {"$"})
    /\ \E i \in 1..Len(s) : s[i] = "$"

\* C12: a construct whose full name holds '$' can be registered:
\* handle_signature raises nothing and returns the name as the full name,
\* whose anchor id is the name with every '$' replaced by '_S_'.
C12_SigilNameRegisters ==
    (ret.fn = "handle_signature" /\ SigilName(call.signature)) =>
       /\ ret.value.exc = NoError
       /\ ret.value.name[1] = call.signature
       /\ ReplaceSigil(ret.value.signode.fullname) = ReplaceSigil(call.signature)


---------------------------------------------------------------------------
(* The parser applied to well-formed signatures: a signature is written    *)
(* from a dotted prefix, a member and an argument list, then from_string   *)
(* or handle_signature is applied once.                                    *)

MaxSegs == 2
MaxArgs == 3

Segments == {<<"P">>, <<"Q", "-">>, <<"_", "1">>}
Members == {<<"M">>, <<"m", "_", "2">>}
\* arguments hold anything but ')'; the last holds a comma followed by no
\* whitespace
Fragments == {<<"a">>, <<"b">>, <<"a", ",", "b">>}
\* a comma and one or more whitespace characters
Separators == {<<",", " ">>, <<",", "\t", " ">>}

TuplesUpTo(S, n) == UNION {[1..k -> S] : k \in 0..n}

RECURSIVE JoinWith(_, _)
JoinWith(parts, sep) ==
    IF parts = <<>> THEN <<>>
    ELSE IF Len(parts) = 1 THEN parts[1]
    ELSE parts[1] \o sep \o JoinWith(Tail(parts), sep)

\* 'P1.P2.M(a, b, c)'; no parentheses when there is no argument
WriteSignature(segs, member, args, sep) ==
    JoinWith(Append(segs, member), <<".">>)
       \o (IF args = <<>> THEN <<>>
           ELSE <<"(">> \o JoinWith(args, sep) \o <<")">>)

RoundTripInit ==
    /\ \E segs \in TuplesUpTo(Segments, MaxSegs), member \in Members,
          args \in TuplesUpTo(Fragments, MaxArgs), sep \in Separators :
          call = [fn |-> "signature",
                  signature |-> WriteSignature(segs, member, args, sep),
                  segs |-> segs, member |-> member, args |-> args]
    /\ ret = Idle
    /\ objects = EmptyDict
    /\ dn_prefix = None
    /\ docname = NoDoc
    /\ ids = {}
    /\ stack = <<>>
    /\ warning = NoWarning
    /\ error = NoError
    /\ registered = [d \in Docs |-> {}]

SpecRoundTrip == RoundTripInit /\ [][ParseNext]_vars

\* C14: a well-formed signature 'P1.P2.M(a, b, c)' parses to the prefix
\* 'P1.P2', the member 'M', the full name 'P1.P2.M' and the arguments
\* ['a','b','c'], a comma followed by no whitespace splitting nothing; a
\* bare 'M' parses to no prefix and the full name 'M'.
C14_SignatureRoundTrip ==
    ret.fn = "from_string" =>
       /\ ret.value.exc = NoError
       /\ ret.value.prefix = IF call.segs = <<>> THEN None
                             ELSE JoinWith(call.segs, <<".">>)
       /\ ret.value.member = call.member
       /\ full_name(ret.value) = JoinWith(Append(call.segs, call.member), <<".">>)
       /\ call.args /= <<>> => ret.value.arguments = call.args

\* a two-segment prefix and three arguments, one of them holding a comma,
\* were parsed
C14_Witness ==
    /\ ret.fn = "from_string"
    /\ Len(call.segs) = 2
    /\ Len(call.args) = 3
    /\ \E i \in 1..3 : call.args[i] = <<"a", ",", "b">>
    /\ ret.value.exc = NoError
    /\ Len(ret.value.arguments) = 3


---------------------------------------------------------------------------
\* The role applied on its own: the text of a reference is drawn from the
\* strings over a small alphabet, then process_link is applied once.  The
\* host passes the text as title and as target when the author wrote no
\* explicit title.

MaxRefLen == 3

RefAlphabet == {"~", ".", "C"}

RECURSIVE RefStrings(_)
RefStrings(n) ==
    IF n = 0 THEN {<<>>}
    ELSE RefStrings(n - 1)
         \cup {Append(s, c) : s \in {t \in RefStrings(n - 1) : Len(t) = n - 1},
                              c \in RefAlphabet}

LinkInit ==
    /\ \E explicit \in BOOLEAN, title \in RefStrings(MaxRefLen),
          target \in RefStrings(MaxRefLen) :
          /\ ~explicit => title = target
          /\ call = [fn |-> "reference", has_explicit_title |-> explicit,
                     title |-> title, target |-> target]
    /\ ret = Idle
    /\ objects = EmptyDict
    /\ dn_prefix = None
    /\ docname = NoDoc
    /\ ids = {}
    /\ stack = <<>>
    /\ warning = NoWarning
    /\ error = NoError
    /\ registered = [d \in Docs |-> {}]

ApplyProcessLink ==
    /\ call.fn = "reference"
    /\ ret = Idle
    /\ ret' = [fn |-> "process_link",
               value |-> process_link(temp_data_get("dn:object"),
                                      temp_data_get("dn:namespace"),
                                      call.has_explicit_title,
                                      call.title, call.target)]
    /\ UNCHANGED <<objects, dn_prefix, docname, ids, stack, warning, error,
                   registered, call>>

LinkNext == ApplyProcessLink

SpecLink == LinkInit /\ [][LinkNext]_vars

\* s without its longest run of leading characters c
WithoutLeading(s, c) ==
    LET k == CHOOSE n \in 0..Len(s) :
                 /\ \A i \in 1..n : s[i] = c
                 /\ n < Len(s) => s[n + 1] /= c
    IN  SubSeq(s, k + 1, Len(s))

\* the target t with one leading '.' stripped, marked specific if it had one
DotStripped(t, value) ==
    IF t /= <<>> /\ t[1] = "."
    THEN value.target = Tail(t) /\ value.refnode.refspecific
    ELSE value.target = t /\ ~value.refnode.refspecific

\* C15 as stated: whether or not the author gave an explicit title, the
\* returned target has all leading '~' removed, and a target that then
\* begins with '.' has that '.' stripped and is marked specific.
C15_TildeStrippedAlways ==
    ret.fn = "process_link" =>
       DotStripped(WithoutLeading(call.target, "~"), ret.value)

\* C15: when the author gave no explicit title the returned target has all
\* leading '~' removed; when the author gave one the target keeps its '~';
\* in either case a target that then begins with '.' has that '.' stripped
\* and is marked specific.
C15_TildeStrippedWithoutTitle ==
    ret.fn = "process_link" =>
       IF call.has_explicit_title
       THEN DotStripped(call.target, ret.value)
       ELSE DotStripped(WithoutLeading(call.target, "~"), ret.value)

\* a reference with an explicit title and a target that begins with '~~' was
\* processed, and the target was returned as it stood
C15_Witness ==
    /\ ret.fn = "process_link"
    /\ call.has_explicit_title
    /\ call.target = <<"~", "~", "C">>
    /\ ret.value.target = call.target


---------------------------------------------------------------------------
(* The content handlers applied on their own: a directive of any kind,     *)
(* with or without a recorded name, stands before its content under any    *)
(* context prefix; before_content and after_content are then applied.      *)
(* The host records a name for every signature handle_signature            *)
(* returns from, so it reaches the frames with a name only.                *)

NestPrefixes == {None, s_N, s_C, s_NC}

\* self.names of the directive: empty, or one (fullname, prefix) pair
NestNames == {<<>>, << <<s_C, None>> >>, << <<s_NC, s_N>> >>}

NestInit ==
    /\ docname \in Docs
    /\ dn_prefix \in NestPrefixes
    /\ \E objtype \in DOMAIN Types, names \in NestNames :
          stack = << [NewFrame(objtype, s_NC, handle_signature(s_NC, None, objtype))
                         EXCEPT !.names = names, !.pc = "before_content"] >>
    /\ objects = EmptyDict
    /\ ids = {}
    /\ warning = NoWarning
    /\ error = NoError
    /\ registered = [d \in Docs |-> {}]
    /\ call = Idle
    /\ ret = Idle

NestNext == BeforeContent \/ AfterContent

SpecNest == NestInit /\ [][NestNext]_vars

\* C16: when before_content of a nesting construct pushed no prefix, no
\* name being recorded for the construct, after_content raises no error
\* and leaves the context prefix unchanged.
C16_ExitWithoutPushIsNoOp ==
    [][(/\ stack /= <<>>
        /\ Top.pc = "content"
        /\ Types[Top.objtype].nested
        /\ Top.clsname_set = "unset"
        /\ Len(stack') < Len(stack))
       => (error' = NoError /\ dn_prefix' = dn_prefix)]_vars

====
